---- MODULE Spec2Model ----
(***************************************************************************)
(* ARTEMIS dashboard: the Gemini service functions (geminiService), the    *)
(* App state with its localStorage persistence and Supabase history, the   *)
(* analysis form (AnalysisInput), the network scanner (DataSourcesView)    *)
(* and the admin gates of the Alerts / Settings / Usage Guide views.       *)
(*                                                                         *)
(* A remote request is an input of the model: it throws, answers with no   *)
(* text, answers with text that JSON.parse rejects, or answers with a      *)
(* parsable document.  An async function is a small state machine whose    *)
(* await points are the states between two actions.                        *)
(***************************************************************************)
EXTENDS Integers, Sequences, FiniteSets, TLC

VARIABLES
  svc,              \* the service function under call (service harness)
  ev,               \* the handler step taken last, with its input
  runs,             \* how many submits, scans and reloads the run has started
  \* App
  currentView, articles, status, notification,
  settings, alerts, dataSources, docs, localStorage,
  \* the remote table news_sentiment_table, inserts in flight, fetchHistory
  table, inserts, fetch,
  \* AnalysisInput
  form, showResultModal, resultData, submit,
  \* the analyzeArticle call in flight
  call,
  \* DataSourcesView
  isScanning, lastScanData, scan,
  \* admin gate of the Alerts, Settings and Usage Guide views
  auth,
  \* the other local state of those views (lost when the view unmounts)
  ui,
  \* file reads and delete calls in flight (they outlive the view)
  io,
  \* history: the article_ids a confirmed Clear History removed from the feed
  cleared

appVars   == <<currentView, articles, status, notification>>
storeVars == <<settings, alerts, dataSources, docs, localStorage>>
dbVars    == <<table, inserts, fetch>>
inputVars == <<form, showResultModal, resultData, submit>>
scanVars  == <<isScanning, lastScanData, scan>>
vars == <<svc, ev, runs, appVars, storeVars, dbVars, inputVars, call, scanVars, auth, ui, io, cleared>>

\* ------------------------------------------------------------------ bounds
\* largest count handed to generateSocialScrapeBatch by the service harness
MaxCount == 4
\* longest post list a scrape response carries
MaxPosts == 2
\* analyses submitted from the form, scans started, and page reloads in a run
MaxSubmits == 1
MaxScans == 1
MaxReloads == 1
\* documents the Usage Guide holds at most
MaxDocs == 2
\* import files picked in the settings view
MaxImports == 2
\* articles in the feed of the store harness
MaxFeed == 1
\* insight requests of earlier visits of the e-commerce view still in flight
MaxStale == 2

\* --------------------------------------------------------------- JS helpers
\* JS undefined, for the optional string fields of the records
Undefined == "<undefined>"

Min(a, b) == IF a < b THEN a ELSE b
Max(a, b) == IF a > b THEN a ELSE b

\* Array.prototype.slice(start, end): negative indices count from the end,
\* both are clamped to the array
SliceIndex(i, n) == IF i < 0 THEN Max(n + i, 0) ELSE Min(i, n)
Slice(s, start, end) ==
  LET from == SliceIndex(start, Len(s))
      to   == SliceIndex(end, Len(s))
  IN  IF from >= to THEN <<>> ELSE SubSeq(s, from + 1, to)

\* a settled promise
Resolved(v) == [settled |-> "resolved", value |-> v]
Rejected(e) == [settled |-> "rejected", error |-> e]

\* ---------------------------------------------------------- remote responses
\* ai.models.generateContent: the request throws, or answers; response.text is
\* empty/undefined, text JSON.parse rejects, or a JSON document (val)
Throws(resp)   == resp.kind = "throw"
HasText(resp)  == resp.kind \in {"garbage", "json", "text"}
Parsable(resp) == resp.kind = "json"
FailResponses  == {[kind |-> "throw"], [kind |-> "empty"], [kind |-> "garbage"]}

\* --------------------------------------------------------------------- data
MixedSources == "Mixed Sources"
ScanPlatform == "News Papers, Magazines, and Social Media"
Platforms    == {MixedSources, "TechCrunch", ScanPlatform}

\* AnalysisRequest
Post(text, source, url, ip) ==
  [text |-> text, source |-> source, url |-> url, date |-> "2024-05-01", ip_address |-> ip]

\* the static fallback list of generateSocialScrapeBatch (Date.now() and the
\* current day are fixed for a run of the model)
fallbackData(platform) ==
  << [text |-> "RT @radical_voice: ... rise up ... #resistance #uprising",
      source |-> IF platform = MixedSources THEN "X (Twitter)" ELSE platform,
      url |-> "https://twitter.com/radical_voice/status/<now>",
      date |-> "<today>", ip_address |-> "45.12.33.192"],
     [text |-> "Unbelievable scenes at the city square today ...",
      source |-> IF platform = MixedSources THEN "Facebook" ELSE platform,
      url |-> "https://facebook.com/groups/community/posts/<now>",
      date |-> "<today>", ip_address |-> "192.168.0.45"],
     [text |-> "New tech regulations expected to pass this week ...",
      source |-> "Bloomberg",
      url |-> "https://bloomberg.com/news/articles/<now>",
      date |-> "<today>", ip_address |-> "10.0.5.12"] >>

\* posts a scrape response can carry
ScrapedPosts ==
  { Post("@calm_news: markets steady", "Facebook", "https://facebook.com/p/1", "203.0.113.7"),
    Post("@agitator: burn their books", "TikTok", "https://tiktok.com/@agitator/1", "198.51.100.9") }

SeqsUpTo(S, n) == UNION {[1..k -> S] : k \in 0..n}
ScrapeResponses ==
  FailResponses \cup {[kind |-> "json", val |-> ps] : ps \in SeqsUpTo(ScrapedPosts, MaxPosts)}

\* --------------------------------------------------------- geminiService.ts
\* mutant of generateSocialScrapeBatch: the catch block rethrows
generateSocialScrapeBatch_Rethrows(count, platform, resp) ==
  IF Parsable(resp) THEN Resolved(resp.val) ELSE Rejected("Batch Scrape Generation Failed")

\* generateSocialScrapeBatch(count, platform): try { request; if (!text) throw;
\* return JSON.parse(text) } catch { return fallbackData.slice(0, count) }
generateSocialScrapeBatch(count, platform, resp) ==
  LET thrown == Throws(resp) \/ ~HasText(resp) \/ ~Parsable(resp)
  IN  IF thrown THEN Resolved(Slice(fallbackData(platform), 0, count))
      ELSE Resolved(resp.val)

\* generateMockArticle(platform) =
\*   generateSocialScrapeBatch(1, platform).then(res => res[0])
generateMockArticle(platform, resp) ==
  LET batch == generateSocialScrapeBatch(1, platform, resp)
  IN  IF batch.settled = "rejected" THEN batch
      ELSE IF Len(batch.value) >= 1 THEN Resolved(batch.value[1])
      ELSE Resolved([undefined |-> TRUE])

\* ArticleAnalysis as the analysis response carries it (the ten fields the
\* response schema requires); sentiment_score in tenths
ModelAnalysis(id, label, risk, score) ==
  [article_id |-> id, source |-> "Facebook", date |-> "2024-05-01",
   summary |-> "summary of the post", primary_topic |-> "Other",
   sentiment_score |-> score, sentiment_label |-> label, risk_category |-> risk,
   key_entities |-> <<"@agitator">>,
   references |-> << [type |-> "Profile", name |-> "@agitator",
                      url |-> "https://tiktok.com/@agitator"] >>]

\* the analyses the model returns: the article_id is of the model's making
\* and may repeat
ModelAnalyses ==
  { ModelAnalysis("uuid-1", "Positive", "None", 6),
    ModelAnalysis("uuid-2", "Negative", "None", -4),
    ModelAnalysis("uuid-1", "Neutral", "Misinformation", 0),
    ModelAnalysis("uuid-2", "Very Negative", "Hate Speech", -9) }

\* ArticleAnalysis as analyzeArticle returns it: the response plus the request
\* metadata and the optional alert summary
WithMeta(a, ip, url, content, alert) ==
  [article_id |-> a.article_id, source |-> a.source, date |-> a.date,
   summary |-> a.summary, primary_topic |-> a.primary_topic,
   sentiment_score |-> a.sentiment_score, sentiment_label |-> a.sentiment_label,
   risk_category |-> a.risk_category, key_entities |-> a.key_entities,
   references |-> a.references, ip_address |-> ip, url |-> url,
   original_post_content |-> content, alert_summary |-> alert]

Recipient == "analyst@company.com"

\* generateAlertEmail(article, recipientEmail): try { request; if (!text)
\* throw; return JSON.parse(text) } catch { return the fallback subject/body }
FallbackEmail(article) ==
  [subject |-> "Automated Alert: " \o article.risk_category,
   body |-> "High risk detected in " \o article.source \o ". Please review dashboard."]
\* mutant of generateAlertEmail: the catch block rethrows, as analyzeArticle's
generateAlertEmail_Rethrows(article, recipientEmail, resp) ==
  IF Parsable(resp) THEN Resolved(resp.val) ELSE Rejected("Failed to generate alert email")

generateAlertEmail(article, recipientEmail, resp) ==
  LET thrown == Throws(resp) \/ ~HasText(resp) \/ ~Parsable(resp)
  IN  IF thrown THEN Resolved(FallbackEmail(article)) ELSE Resolved(resp.val)
EmailResponses ==
  FailResponses \cup
  {[kind |-> "json", val |-> [subject |-> "Urgent Alert from ARTEMIS",
                               body |-> "Immediate review of the source is recommended."]]}

\* generateScanReport(articles): no request for an empty list; otherwise
\* try { return response.text || fixed } catch { return fixed }
NoArticlesReport == "No articles were processed."
FallbackReport   == "Scan complete. Review detailed results below."
ReportIssuesRequest(list) == Len(list) # 0
generateScanReport(list, resp) ==
  IF ~ReportIssuesRequest(list) THEN Resolved(NoArticlesReport)
  ELSE IF Throws(resp) THEN Resolved(FallbackReport)
  ELSE IF HasText(resp) THEN Resolved(resp.body)
  ELSE Resolved(FallbackReport)
ReportResponses ==
  {[kind |-> "throw"], [kind |-> "empty"],
   [kind |-> "text", body |-> "The scan detected 1 high-risk item."]}

\* getEcommerceInsights(): try { request; if (!text) throw; return
\* JSON.parse(text) } catch { return the fallback snapshot }
FallbackEcommerce ==
  [trends |-> << [id |-> "1", title |-> "Live Stream Shopping"],
                 [id |-> "2", title |-> "Eco-Conscious Unboxing"],
                 [id |-> "3", title |-> "AI-Personalized Bundles"] >>,
   platforms |-> << [platform |-> "Amazon", order_volume |-> 85000],
                    [platform |-> "TikTok Shop", order_volume |-> 42000],
                    [platform |-> "Shopify", order_volume |-> 31000],
                    [platform |-> "Instagram Checkout", order_volume |-> 25000] >>,
   products |-> << [id |-> "1", product_name |-> "Smart Water Bottle"] >>]
\* getEcommerceInsights whose catch block rethrows
getEcommerceInsights_Rethrows(resp) ==
  IF Parsable(resp) THEN Resolved(resp.val) ELSE Rejected("Ecommerce Insights Failed")
getEcommerceInsights(resp) ==
  LET thrown == Throws(resp) \/ ~HasText(resp) \/ ~Parsable(resp)
  IN  IF thrown THEN Resolved(FallbackEcommerce) ELSE Resolved(resp.val)
EcommerceResponses ==
  FailResponses \cup
  {[kind |-> "json",
    val |-> [trends |-> << [id |-> "t1", title |-> "De-influencing"] >>,
             platforms |-> << [platform |-> "Amazon", order_volume |-> 90000] >>,
             products |-> << [id |-> "p1", product_name |-> "Desk Lamp"] >>]]}

\* ------------------------------------------------------------ App state
\* useState initial values of App (App.tsx) when localStorage is empty
DefaultSettings ==
  [email |-> "analyst@company.com", emailEnabled |-> TRUE, sensitivity |-> "medium",
   customLogo |-> Undefined]
Source(id, name) == [id |-> id, name |-> name, status |-> "active"]
INITIAL_SOURCES ==
  << Source("1", "Public News RSS"), Source("2", "The Daily Times"),
     Source("3", "Tech Weekly"), Source("4", "Monitoring Page: Religious Debates"),
     Source("5", "Hashtag: #PublicOpinion") >>

NoNotification == [message |-> "", type |-> "none"]
\* showNotification(message, type): the toast shown last
Notify(message, type) == [message |-> message, type |-> type]

\* localStorage: a key is absent or holds a JSON text
NoItem == [absent |-> TRUE]
\* JSON.stringify drops the properties whose value is undefined
StringifySettings(v) ==
  IF v.customLogo = Undefined
  THEN [json |-> "object", email |-> v.email, emailEnabled |-> v.emailEnabled,
        sensitivity |-> v.sensitivity]
  ELSE [json |-> "object", email |-> v.email, emailEnabled |-> v.emailEnabled,
        sensitivity |-> v.sensitivity, customLogo |-> v.customLogo]
\* JSON.parse of a settings text; a property the text lacks reads undefined
ParseSettings(t) ==
  [email |-> t.email, emailEnabled |-> t.emailEnabled, sensitivity |-> t.sensitivity,
   customLogo |-> IF "customLogo" \in DOMAIN t THEN t.customLogo ELSE Undefined]
\* arrays of records whose fields are all strings
StringifyList(v) == [json |-> "array", items |-> v]
ParseList(t) == t.items

\* the persistence effects of App: useEffect(() => localStorage.setItem(key,
\* JSON.stringify(value)), [value])
StoreSettings(ls, v) == [ls EXCEPT !.artemis_settings = StringifySettings(v)]
\* StoreAlerts without its effect: the alert log stays in memory only
StoreAlerts_Unsaved(ls, v) == ls
StoreAlerts(ls, v)   == [ls EXCEPT !.artemis_alerts = StringifyList(v)]
StoreSources(ls, v)  == [ls EXCEPT !.artemis_dataSources = StringifyList(v)]
StoreDocs(ls, v)     == [ls EXCEPT !.artemis_docs = StringifyList(v)]
\* the useState initialisers: saved ? JSON.parse(saved) : default
LoadSettings(ls) ==
  IF ls.artemis_settings = NoItem THEN DefaultSettings ELSE ParseSettings(ls.artemis_settings)
LoadAlerts(ls) ==
  IF ls.artemis_alerts = NoItem THEN <<>> ELSE ParseList(ls.artemis_alerts)
LoadSources(ls) ==
  IF ls.artemis_dataSources = NoItem THEN INITIAL_SOURCES ELSE ParseList(ls.artemis_dataSources)
LoadDocs(ls) ==
  IF ls.artemis_docs = NoItem THEN <<>> ELSE ParseList(ls.artemis_docs)
EmptyStorage ==
  [artemis_settings |-> NoItem, artemis_alerts |-> NoItem,
   artemis_dataSources |-> NoItem, artemis_docs |-> NoItem]
\* all four effects, as they run after the first render
StoreAll(ls, s, a, ds, d) ==
  StoreDocs(StoreSources(StoreAlerts(StoreSettings(ls, s), a), ds), d)

\* AnalysisInput: the form as it is first rendered
Today == "<today>"
EmptyForm == [text |-> "", source |-> "", date |-> Today, ipAddress |-> ""]
NoResult == [none |-> TRUE]
IdleProc == [pc |-> "idle"]

\* admin gate of a view as it is first rendered
Views == {"dashboard", "ecommerce", "datasources", "history", "alerts", "usage", "settings"}
GatedViews == {"alerts", "settings", "usage"}
LockedGate == [isAdmin |-> FALSE, showAuthScreen |-> FALSE, password |-> "", authError |-> ""]
\* useState initial values of SettingsView, UsageGuideView and AlertsView
\* beside the gate
NoTarget == "<null>"
EmailConfig(id, role, email, isActive) ==
  [id |-> id, role |-> role, email |-> email, isActive |-> isActive]
\* the alert distribution list AlertsView starts with
InitialEmailConfigs ==
  << EmailConfig("1", "Chief Security Officer", "cso@artemis.corp", TRUE),
     EmailConfig("2", "Legal Compliance", "legal.audit@artemis.corp", TRUE),
     EmailConfig("3", "Public Relations Lead", "press.office@artemis.corp", FALSE),
     EmailConfig("4", "Regional Crisis Team", "apac.crisis@artemis.corp", FALSE),
     EmailConfig("5", "System Administrator", "sysadmin@artemis.corp", TRUE) >>
\* EcommerceView: useState<EcommerceData | null>(null)
NoData == [none |-> TRUE]
InitUi == [showClearConfirm |-> FALSE, isUploading |-> FALSE, isDeleting |-> {},
           deleteTarget |-> NoTarget, emailConfigs |-> InitialEmailConfigs,
           data |-> NoData, loading |-> TRUE]
\* no FileReader is reading, no api.deleteFile call is in flight, no file has
\* been downloaded
NoFile == [none |-> TRUE]
IdleIo == [logoRead |-> IdleProc, upload |-> IdleProc, deleteCall |-> IdleProc,
           importRead |-> IdleProc, download |-> NoFile,
           insights |-> IdleProc, staleInsights |-> 0]

\* the first visit of a browser with empty localStorage, after App has
\* mounted: state holds the defaults, the effects have stored them and
\* fetchHistory is under way
Init ==
  /\ svc = [fn |-> "none", pc |-> "idle"]
  /\ ev = [op |-> "mount"]
  /\ runs = [submits |-> 0, scans |-> 0, reloads |-> 0, imports |-> 0]
  /\ currentView = "dashboard" /\ articles = <<>> /\ status = "IDLE"
  /\ notification = NoNotification
  /\ settings = LoadSettings(EmptyStorage) /\ alerts = LoadAlerts(EmptyStorage)
  /\ dataSources = LoadSources(EmptyStorage) /\ docs = LoadDocs(EmptyStorage)
  /\ localStorage = StoreAll(EmptyStorage, LoadSettings(EmptyStorage), LoadAlerts(EmptyStorage),
                             LoadSources(EmptyStorage), LoadDocs(EmptyStorage))
  /\ table = <<>> /\ inserts = {} /\ fetch = "pending"
  /\ form = EmptyForm /\ showResultModal = FALSE /\ resultData = NoResult
  /\ submit = IdleProc
  /\ call = IdleProc
  /\ isScanning = FALSE /\ lastScanData = NoResult /\ scan = IdleProc
  /\ auth = [v \in GatedViews |-> LockedGate]
  /\ ui = InitUi /\ io = IdleIo /\ cleared = {}

\* ------------------------------------------------- the service functions, run
\* one call at a time: svc.pc is "idle", "pending" (request in flight) or
\* "settled" (svc.out is the promise's settlement)
SvcIdle == [fn |-> "none", pc |-> "idle"]
svcRest == <<runs, appVars, storeVars, dbVars, inputVars, call, scanVars, auth, ui, io, cleared>>

SvcPending(fn, arg) == [fn |-> fn, pc |-> "pending", arg |-> arg]
SvcSettled(resp, out) ==
  [fn |-> svc.fn, pc |-> "settled", arg |-> svc.arg, resp |-> resp, out |-> out]

CallScrape ==
  /\ svc.pc = "idle"
  /\ \E count \in -1..MaxCount, platform \in Platforms :
       svc' = SvcPending("generateSocialScrapeBatch", [count |-> count, platform |-> platform])
  /\ ev' = [op |-> "call"]
  /\ UNCHANGED svcRest
SettleScrape ==
  /\ svc.pc = "pending" /\ svc.fn = "generateSocialScrapeBatch"
  /\ \E resp \in ScrapeResponses :
       svc' = SvcSettled(resp, generateSocialScrapeBatch(svc.arg.count, svc.arg.platform, resp))
  /\ ev' = [op |-> "settle"]
  /\ UNCHANGED svcRest

CallMock ==
  /\ svc.pc = "idle"
  /\ \E platform \in Platforms : svc' = SvcPending("generateMockArticle", [platform |-> platform])
  /\ ev' = [op |-> "call"]
  /\ UNCHANGED svcRest
SettleMock ==
  /\ svc.pc = "pending" /\ svc.fn = "generateMockArticle"
  /\ \E resp \in ScrapeResponses :
       svc' = SvcSettled(resp, generateMockArticle(svc.arg.platform, resp))
  /\ ev' = [op |-> "settle"]
  /\ UNCHANGED svcRest

AnalysedArticles ==
  {WithMeta(a, "203.0.113.7", "https://facebook.com/p/1", "@calm_news: markets steady", Undefined)
     : a \in ModelAnalyses}

CallEmail ==
  /\ svc.pc = "idle"
  /\ \E article \in AnalysedArticles :
       svc' = SvcPending("generateAlertEmail", [article |-> article, recipient |-> Recipient])
  /\ ev' = [op |-> "call"]
  /\ UNCHANGED svcRest
SettleEmail ==
  /\ svc.pc = "pending" /\ svc.fn = "generateAlertEmail"
  /\ \E resp \in EmailResponses :
       svc' = SvcSettled(resp, generateAlertEmail(svc.arg.article, svc.arg.recipient, resp))
  /\ ev' = [op |-> "settle"]
  /\ UNCHANGED svcRest

\* an empty list settles without a request
CallReport ==
  /\ svc.pc = "idle"
  /\ \E list \in SeqsUpTo(AnalysedArticles, 1) :
       svc' = IF ReportIssuesRequest(list)
              THEN SvcPending("generateScanReport", [articles |-> list])
              ELSE [fn |-> "generateScanReport", pc |-> "settled",
                    arg |-> [articles |-> list], resp |-> [kind |-> "none"],
                    out |-> generateScanReport(list, [kind |-> "none"])]
  /\ ev' = [op |-> "call"]
  /\ UNCHANGED svcRest
SettleReport ==
  /\ svc.pc = "pending" /\ svc.fn = "generateScanReport"
  /\ \E resp \in ReportResponses :
       svc' = SvcSettled(resp, generateScanReport(svc.arg.articles, resp))
  /\ ev' = [op |-> "settle"]
  /\ UNCHANGED svcRest

CallEcommerce ==
  /\ svc.pc = "idle"
  /\ svc' = SvcPending("getEcommerceInsights", [none |-> TRUE])
  /\ ev' = [op |-> "call"]
  /\ UNCHANGED svcRest
SettleEcommerce ==
  /\ svc.pc = "pending" /\ svc.fn = "getEcommerceInsights"
  /\ \E resp \in EcommerceResponses : svc' = SvcSettled(resp, getEcommerceInsights(resp))
  /\ ev' = [op |-> "settle"]
  /\ UNCHANGED svcRest

\* the caller takes the settlement
SvcReturn ==
  /\ svc.pc = "settled"
  /\ svc' = SvcIdle
  /\ ev' = [op |-> "return"]
  /\ UNCHANGED svcRest

SvcNext ==
  \/ CallScrape \/ SettleScrape
  \/ CallMock \/ SettleMock
  \/ CallEmail \/ SettleEmail
  \/ CallReport \/ SettleReport
  \/ CallEcommerce \/ SettleEcommerce
  \/ SvcReturn

SpecService == Init /\ [][SvcNext]_vars

\* ------------------------------------------------------- analyzeArticle
\* a || b of JS on strings
OrElse(v, d) == IF v = Undefined \/ v = "" THEN d ELSE v

AnalysisResponses == FailResponses \cup {[kind |-> "json", val |-> a] : a \in ModelAnalyses}
AlertResponses ==
  {[kind |-> "throw"], [kind |-> "empty"],
   [kind |-> "text", body |-> "  URGENT HATE SPEECH: review the source now.\n"]}
\* String.prototype.trim on the alert texts of the model
Trim(t) ==
  IF t = "  URGENT HATE SPEECH: review the source now.\n"
  THEN "URGENT HATE SPEECH: review the source now." ELSE t

\* the row analyzeArticle hands to supabase.from('news_sentiment_table').insert
InsertRow(data) ==
  [article_id |-> data.article_id, source |-> data.source, url |-> data.url,
   date |-> data.date, ip_address |-> data.ip_address, summary |-> data.summary,
   primary_topic |-> data.primary_topic, sentiment_score |-> data.sentiment_score,
   sentiment_label |-> data.sentiment_label, risk_category |-> data.risk_category,
   key_entities |-> data.key_entities, references |-> data.references,
   original_post_content |-> data.original_post_content]

\* the ALERT SYSTEM LOGIC condition of analyzeArticle
NeedsAlertSummary(data) ==
  data.sentiment_label \in {"Negative", "Very Negative"} \/ data.risk_category # "None"

\* analyzeArticle(request) up to its first await: the analysis request is issued
CallStart(request) ==
  [pc |-> "analysis", request |-> request, nAnalysis |-> 1, nInsert |-> 0, nAlert |-> 0]

\* mutant of AnalysisSettles: the catch returns a placeholder analysis, saved
\* like any other, as the other service functions fall back
AnalysisSettles_FallsBack(resp) ==
  /\ call.pc = "analysis"
  /\ LET a == IF Parsable(resp) THEN resp.val
              ELSE ModelAnalysis("unknown", "Neutral", "None", 0)
         data == WithMeta(a, OrElse(call.request.ip_address, "Unknown"),
                          OrElse(call.request.url, ""), call.request.text, Undefined)
     IN  /\ inserts' = inserts \cup {InsertRow(data)}
         /\ call' = [pc |-> IF NeedsAlertSummary(data) THEN "alert" ELSE "resolved",
                     request |-> call.request, data |-> data,
                     nAnalysis |-> call.nAnalysis, nInsert |-> call.nInsert + 1,
                     nAlert |-> call.nAlert + IF NeedsAlertSummary(data) THEN 1 ELSE 0]

\* the analysis request settles.  A throw, an empty text or an unparsable text
\* ends in the outer catch, which rethrows.  Otherwise the request metadata is
\* attached, the background insert is started (not awaited), and a flagged
\* analysis asks for its alert summary.
AnalysisSettles(resp) ==
  /\ call.pc = "analysis"
  /\ IF Throws(resp) \/ ~HasText(resp) \/ ~Parsable(resp)
     THEN /\ call' = [call EXCEPT !.pc = "rejected"]
          /\ inserts' = inserts
     ELSE LET data == WithMeta(resp.val, OrElse(call.request.ip_address, "Unknown"),
                               OrElse(call.request.url, ""), call.request.text, Undefined)
          IN  /\ inserts' = inserts \cup {InsertRow(data)}
              /\ call' = [pc |-> IF NeedsAlertSummary(data) THEN "alert" ELSE "resolved",
                          request |-> call.request, data |-> data,
                          nAnalysis |-> call.nAnalysis, nInsert |-> call.nInsert + 1,
                          nAlert |-> call.nAlert + IF NeedsAlertSummary(data) THEN 1 ELSE 0]

\* the alert-summary request settles; its failure is caught and logged
AlertSummarySettles(resp) ==
  /\ call.pc = "alert"
  /\ call' = [call EXCEPT
                !.pc = "resolved",
                !.data.alert_summary =
                   IF ~Throws(resp) /\ HasText(resp) THEN Trim(resp.body) ELSE @]

\* ------------------------------------------------- news_sentiment_table
\* an insert in flight completes: the row is stored unless the table already
\* holds its primary key; the insert may also answer with an error or throw
\* (both only logged).  An insert that never completes stays in flight.
InsertOutcomes == {"ok", "error", "throw"}
HasKey(id) == \E i \in 1..Len(table) : table[i].article_id = id
InsertCompletes(row, outcome) ==
  /\ row \in inserts
  /\ inserts' = inserts \ {row}
  /\ table' = IF outcome = "ok" /\ ~HasKey(row.article_id) THEN Append(table, row) ELSE table

\* select('*').order('created_at', { ascending: false })
Reverse(q) == [i \in 1..Len(q) |-> q[Len(q) + 1 - i]]
\* the record fetchHistory builds from a stored row
MapRow(row) ==
  [article_id |-> OrElse(row.article_id, "unknown"),
   source |-> OrElse(row.source, "Unknown Source"),
   url |-> OrElse(row.url, ""),
   date |-> OrElse(row.date, Today),
   summary |-> OrElse(row.summary, "No summary available"),
   primary_topic |-> OrElse(row.primary_topic, "Other"),
   sentiment_score |-> row.sentiment_score,
   sentiment_label |-> OrElse(row.sentiment_label, "Neutral"),
   risk_category |-> OrElse(row.risk_category, "None"),
   key_entities |-> row.key_entities,
   references |-> row.references,
   ip_address |-> row.ip_address,
   original_post_content |-> row.original_post_content,
   alert_summary |-> Undefined]
MapRows(rows) == [i \in 1..Len(rows) |-> MapRow(rows[i])]

\* ------------------------------------------------ steps shared by the views
\* the analysis request of the call in flight settles
AnalysisResponds ==
  /\ \E resp \in AnalysisResponses :
       /\ AnalysisSettles(resp)
       /\ ev' = [op |-> "analysisSettles", kind |-> resp.kind]
  /\ UNCHANGED <<svc, runs, appVars, storeVars, table, fetch, inputVars, scanVars, auth, ui, io, cleared>>

\* the alert-summary request of the call in flight settles
AlertSummaryResponds ==
  /\ \E resp \in AlertResponses :
       /\ AlertSummarySettles(resp)
       /\ ev' = [op |-> "alertSummarySettles", kind |-> resp.kind]
  /\ UNCHANGED <<svc, runs, appVars, storeVars, dbVars, inputVars, scanVars, auth, ui, io, cleared>>

\* mutant of InsertDone: the insert is awaited and its failure ends the call
InsertDone_FailureRejects ==
  /\ \E row \in inserts, outcome \in InsertOutcomes :
       /\ InsertCompletes(row, outcome)
       /\ call' = IF outcome # "ok" /\ call.pc \in {"alert", "resolved"}
                  THEN [call EXCEPT !.pc = "rejected"] ELSE call
       /\ ev' = [op |-> "insertCompletes", outcome |-> outcome]
  /\ UNCHANGED <<svc, runs, appVars, storeVars, fetch, inputVars, scanVars, auth, ui, io, cleared>>

\* a background insert completes
InsertDone ==
  /\ \E row \in inserts, outcome \in InsertOutcomes :
       /\ InsertCompletes(row, outcome)
       /\ ev' = [op |-> "insertCompletes", outcome |-> outcome]
  /\ UNCHANGED <<svc, runs, appVars, storeVars, fetch, inputVars, call, scanVars, auth, ui, io, cleared>>

\* fetchHistory of App settles: a non-empty result replaces the feed, an error
\* or an exception is logged
FetchOutcomes == {"ok", "error", "throw"}
FetchSettles ==
  /\ fetch = "pending"
  /\ fetch' = "done"
  /\ \E outcome \in FetchOutcomes :
       /\ articles' = IF outcome = "ok" /\ Len(table) > 0
                      THEN MapRows(Reverse(table)) ELSE articles
       /\ ev' = [op |-> "fetchHistory", outcome |-> outcome]
  /\ UNCHANGED <<svc, runs, currentView, status, notification, storeVars, table, inserts,
                 inputVars, call, scanVars, auth, ui, io, cleared>>

\* an async handler whose component has unmounted keeps running; the state
\* setters of the unmounted component do nothing
\* an unmount that ends the handler in flight
Unmounted_Cancelled(proc) == IdleProc
Unmounted(proc) == IF proc.pc = "idle" THEN proc ELSE [proc EXCEPT !.mounted = FALSE]

\* the handlers in flight of the view that unmounts
Unmount(view, x) ==
  IF view = "usage"
  THEN [x EXCEPT !.upload = Unmounted(@), !.deleteCall = Unmounted(@)]
  ELSE IF view = "settings"
  THEN [x EXCEPT !.logoRead = Unmounted(@), !.importRead = Unmounted(@)]
  ELSE IF view = "ecommerce"
  THEN [x EXCEPT !.insights = Unmounted(@)]
  ELSE x
\* the mount effect of the view entered: EcommerceView's useEffect(() =>
\* { fetchData() }, []) sends its request; one an earlier visit left in
\* flight stays in flight
Mount(view, x) ==
  IF view = "ecommerce"
  THEN [x EXCEPT !.insights = [pc |-> "pending", mounted |-> TRUE],
                 !.staleInsights = @ + IF x.insights.pc = "pending" THEN 1 ELSE 0]
  ELSE x

\* NavItem onClick: setCurrentView(view); the view left unmounts and loses its
\* local state, the view entered mounts with its initial state
NavigateTo(view) ==
  /\ view # currentView
  /\ (view = "ecommerce" /\ io.insights.pc = "pending") => io.staleInsights < MaxStale
  /\ currentView' = view
  /\ IF currentView = "dashboard"
     THEN /\ form' = EmptyForm /\ showResultModal' = FALSE /\ resultData' = NoResult
          /\ submit' = Unmounted(submit)
     ELSE UNCHANGED inputVars
  /\ IF currentView = "datasources"
     THEN /\ isScanning' = FALSE /\ lastScanData' = NoResult /\ scan' = Unmounted(scan)
     ELSE UNCHANGED scanVars
  /\ auth' = IF currentView \in GatedViews THEN [auth EXCEPT ![currentView] = LockedGate]
             ELSE auth
  /\ ui' = InitUi
  /\ io' = Mount(view, Unmount(currentView, io))
  /\ ev' = [op |-> "navigate", view |-> view]
  /\ UNCHANGED <<svc, runs, articles, status, notification, storeVars, dbVars, call, cleared>>

\* the page is reloaded: scripts in flight end, requests already sent may still
\* complete, App mounts again from localStorage and starts fetchHistory
Reload ==
  /\ runs.reloads < MaxReloads
  /\ runs' = [runs EXCEPT !.reloads = @ + 1]
  /\ currentView' = "dashboard" /\ articles' = <<>> /\ status' = "IDLE"
  /\ notification' = NoNotification
  /\ settings' = LoadSettings(localStorage) /\ alerts' = LoadAlerts(localStorage)
  /\ dataSources' = LoadSources(localStorage) /\ docs' = LoadDocs(localStorage)
  /\ localStorage' = StoreAll(localStorage, settings', alerts', dataSources', docs')
  /\ fetch' = "pending"
  /\ form' = EmptyForm /\ showResultModal' = FALSE
  /\ resultData' = NoResult /\ submit' = IdleProc
  /\ call' = IdleProc
  /\ isScanning' = FALSE /\ lastScanData' = NoResult /\ scan' = IdleProc
  /\ auth' = [v \in GatedViews |-> LockedGate]
  /\ ui' = InitUi /\ io' = [IdleIo EXCEPT !.download = io.download]
  /\ ev' = [op |-> "reload"]
  /\ UNCHANGED <<svc, table, inserts, cleared>>

\* ----------------------------------------------------------- AnalysisInput
\* isLoading of the form: status === ANALYZING || isGenerating.  The auto-fill
\* (handleGenerateExample) only fills the form and excludes a submit while it
\* runs; the form values it would produce are among those typed here.
isLoading == status = "ANALYZING"

FormTexts   == {"", "manual post text"}
FormSources == {"", "Facebook"}
FormDates   == {"", Today}
\* onChange of the source, date and text inputs (disabled while loading)
SetField(field, value) ==
  /\ currentView = "dashboard" /\ ~isLoading
  /\ form' = [form EXCEPT ![field] = value]
  /\ ev' = [op |-> "setField", field |-> field]
  /\ UNCHANGED <<svc, runs, appVars, storeVars, dbVars, showResultModal, resultData,
                 submit, call, scanVars, auth, ui, io, cleared>>
SetText   == \E v \in FormTexts : SetField("text", v)
SetSource == \E v \in FormSources : SetField("source", v)
SetDate   == \E v \in FormDates : SetField("date", v)

\* handleSubmit up to its await: an incomplete form returns at once, otherwise
\* the status becomes ANALYZING and analyzeArticle is called
HandleSubmit ==
  /\ currentView = "dashboard" /\ ~isLoading
  /\ ev' = [op |-> "handleSubmit"]
  /\ IF form.text = "" \/ form.source = "" \/ form.date = ""
     THEN UNCHANGED <<runs, status, submit, call>>
     ELSE /\ runs.submits < MaxSubmits /\ call.pc = "idle"
          /\ runs' = [runs EXCEPT !.submits = @ + 1]
          /\ status' = "ANALYZING"
          /\ submit' = [pc |-> "awaiting", mounted |-> TRUE]
          /\ call' = CallStart([text |-> form.text, source |-> form.source,
                                date |-> form.date, url |-> Undefined,
                                ip_address |-> OrElse(form.ipAddress, "Manual Input")])
  /\ UNCHANGED <<svc, currentView, articles, notification, storeVars, dbVars, form,
                 showResultModal, resultData, scanVars, auth, ui, io, cleared>>

\* handleSubmit after its await: the result opens the modal and the status
\* becomes SUCCESS; a rejection is caught and the status becomes ERROR
SubmitResumes ==
  /\ submit.pc = "awaiting" /\ call.pc \in {"resolved", "rejected"}
  /\ IF call.pc = "resolved"
     THEN /\ resultData' = IF submit.mounted THEN call.data ELSE resultData
          /\ showResultModal' = IF submit.mounted THEN TRUE ELSE showResultModal
          /\ status' = "SUCCESS"
          /\ ev' = [op |-> "submitResolved"]
     ELSE /\ UNCHANGED <<resultData, showResultModal>>
          /\ status' = "ERROR"
          /\ ev' = [op |-> "submitRejected"]
  /\ submit' = IdleProc /\ call' = IdleProc
  /\ UNCHANGED <<svc, runs, currentView, articles, notification, storeVars, dbVars, form,
                 scanVars, auth, ui, io, cleared>>

\* handleFinalize('save' | 'next'): the result joins the feed
\* (App.handleAnalysisComplete), the text and ip fields are cleared, the modal closes
HandleFinalize ==
  /\ currentView = "dashboard" /\ showResultModal /\ resultData # NoResult
  /\ articles' = <<resultData>> \o articles
  /\ form' = [form EXCEPT !.text = "", !.ipAddress = ""]
  /\ showResultModal' = FALSE /\ resultData' = NoResult
  /\ ev' = [op |-> "handleFinalize"]
  /\ UNCHANGED <<svc, runs, currentView, status, notification, storeVars, dbVars,
                 submit, call, scanVars, auth, ui, io, cleared>>

AnalyzeViews == {"dashboard", "history"}
NavigateAnalyze == \E view \in AnalyzeViews : NavigateTo(view)

AnalyzeNext ==
  \/ SetText \/ SetSource \/ SetDate
  \/ HandleSubmit \/ AnalysisResponds \/ AlertSummaryResponds \/ SubmitResumes
  \/ HandleFinalize
  \/ InsertDone \/ FetchSettles \/ Reload \/ NavigateAnalyze

SpecAnalyze == Init /\ [][AnalyzeNext]_vars

\* ------------------------------------------- App handlers of persisted state
\* Each handler sets its state; the persistence effect of that state runs with
\* the render that follows.
\* onUpdateSettings = setSettings
onUpdateSettings(new) ==
  /\ settings' = new
  /\ localStorage' = StoreSettings(localStorage, new)
\* handleAddAlert: setAlerts(prev => [alert, ...prev])
handleAddAlert(alert) ==
  /\ alerts' = <<alert>> \o alerts
  /\ localStorage' = StoreAlerts(localStorage, alerts')
\* prev.filter(x => x.id !== id)
FilterOutId(q, id) ==
  LET F[i \in 0..Len(q)] ==
        IF i = 0 THEN <<>> ELSE IF q[i].id # id THEN Append(F[i - 1], q[i]) ELSE F[i - 1]
  IN  F[Len(q)]
\* handleDeleteAlert: setAlerts(prev => prev.filter(a => a.id !== id))
handleDeleteAlert(id) ==
  /\ alerts' = FilterOutId(alerts, id)
  /\ localStorage' = StoreAlerts(localStorage, alerts')
  /\ notification' = Notify("Alert log deleted successfully", "info")
\* handleAddSource: setDataSources(prev => [...prev, source])
handleAddSource(source) ==
  /\ dataSources' = Append(dataSources, source)
  /\ localStorage' = StoreSources(localStorage, dataSources')
  /\ notification' = Notify("New data source target added", "success")
\* handleDeleteSource: setDataSources(prev => prev.filter(s => s.id !== id))
handleDeleteSource(id) ==
  /\ dataSources' = FilterOutId(dataSources, id)
  /\ localStorage' = StoreSources(localStorage, dataSources')
  /\ notification' = Notify("Data source target removed", "info")
\* handleUploadDoc: setDocs(prev => [doc, ...prev])
handleUploadDoc(doc) ==
  /\ docs' = <<doc>> \o docs
  /\ localStorage' = StoreDocs(localStorage, docs')
  /\ notification' = Notify("Document uploaded and saved", "success")
\* docs.find(d => d.id === id)?.name || 'File'
DocName(list, id) ==
  IF \E i \in 1..Len(list) : list[i].id = id
  THEN list[CHOOSE i \in 1..Len(list) :
              list[i].id = id /\ \A j \in 1..(i - 1) : list[j].id # id].name
  ELSE "File"
\* handleDeleteDoc: setDocs(prev => prev.filter(d => d.id !== id))
handleDeleteDoc(id) ==
  /\ docs' = FilterOutId(docs, id)
  /\ localStorage' = StoreDocs(localStorage, docs')
  /\ notification' =
       Notify("Document \"" \o DocName(docs, id) \o "\" deleted permanently", "info")
\* a clear that removes the saved settings as well
clearData_ClearsSettings ==
  /\ articles' = <<>>
  /\ alerts' = <<>>
  /\ localStorage' = [StoreAlerts(localStorage, alerts') EXCEPT !.artemis_settings = NoItem]
\* handleClearData: setArticles([]); setAlerts([]); showNotification(...)
clearData ==
  /\ articles' = <<>>
  /\ alerts' = <<>>
  /\ localStorage' = StoreAlerts(localStorage, alerts')
handleClearData ==
  /\ clearData
  /\ notification' = Notify("System cache and history cleared", "info")

\* values the views hand to the handlers
Emails        == {"analyst@company.com", "soc@company.com"}
Sensitivities == {"low", "medium", "high"}
Logos         == {Undefined, "data:image/png;base64,iVBOR"}
SettingsValues ==
  [email : Emails, emailEnabled : BOOLEAN, sensitivity : Sensitivities, customLogo : Logos]
AlertEntry(id, risk) ==
  [id |-> id, timestamp |-> "<now>", recipient |-> Recipient,
   subject |-> "Automated Alert: " \o risk, body |-> "High risk detected in Facebook.",
   riskLevel |-> risk, source |-> "Facebook", status |-> "Sent"]
AlertEntries == {AlertEntry("1714550000000.1", "Hate Speech"), AlertEntry("1714550000001.7", "None")}
NewSources   == {Source("1714550000002", "City Gazette")}
Documents    ==
  {[id |-> "1714550000003k3j", name |-> "manual.pdf", size |-> "0.40 MB",
    uploadDate |-> Today, url |-> "data:application/pdf;base64,JVBERi0"]}
Ids(q) == {q[i].id : i \in 1..Len(q)}

\* App's handlers, each as the view that holds it calls it (ids are made of
\* Date.now() and do not repeat)
storeRest == <<svc, runs, currentView, status, dbVars, inputVars, call, scanVars, auth, ui, io, cleared>>
UpdateSettings ==
  /\ \E new \in SettingsValues :
       /\ new # settings
       /\ \E field \in DOMAIN settings : new = [settings EXCEPT ![field] = new[field]]
       /\ onUpdateSettings(new)
  /\ ev' = [op |-> "onUpdateSettings"]
  /\ UNCHANGED <<articles, notification, alerts, dataSources, docs, storeRest>>
AddAlert ==
  /\ \E alert \in AlertEntries : alert.id \notin Ids(alerts) /\ handleAddAlert(alert)
  /\ ev' = [op |-> "handleAddAlert"]
  /\ UNCHANGED <<articles, notification, settings, dataSources, docs, storeRest>>
DeleteAlert ==
  /\ \E id \in Ids(alerts) : handleDeleteAlert(id)
  /\ ev' = [op |-> "handleDeleteAlert"]
  /\ UNCHANGED <<articles, settings, dataSources, docs, storeRest>>
AddSource ==
  /\ \E source \in NewSources : source.id \notin Ids(dataSources) /\ handleAddSource(source)
  /\ ev' = [op |-> "handleAddSource"]
  /\ UNCHANGED <<articles, settings, alerts, docs, storeRest>>
DeleteSource ==
  /\ \E id \in Ids(dataSources) : handleDeleteSource(id)
  /\ ev' = [op |-> "handleDeleteSource"]
  /\ UNCHANGED <<articles, settings, alerts, docs, storeRest>>
UploadDoc ==
  /\ \E doc \in Documents : doc.id \notin Ids(docs) /\ handleUploadDoc(doc)
  /\ ev' = [op |-> "handleUploadDoc"]
  /\ UNCHANGED <<articles, settings, alerts, dataSources, storeRest>>
DeleteDoc ==
  /\ \E id \in Ids(docs) : handleDeleteDoc(id)
  /\ ev' = [op |-> "handleDeleteDoc"]
  /\ UNCHANGED <<articles, settings, alerts, dataSources, storeRest>>
ClearData ==
  /\ handleClearData
  /\ ev' = [op |-> "handleClearData"]
  /\ UNCHANGED <<settings, dataSources, docs, storeRest>>

\* handleBatchAnalysisComplete: setArticles(prev => [...results, ...prev])
handleBatchAnalysisComplete(results) == articles' = results \o articles
BatchResults ==
  { << WithMeta(a, "Unknown", "https://facebook.com/p/1", "@agitator: they must go",
                Undefined) >> :
      a \in {m \in ModelAnalyses : m.sentiment_label \in {"Positive", "Very Negative"}} }
BatchAnalysisComplete ==
  /\ \E results \in BatchResults :
       /\ Len(articles) + Len(results) <= MaxFeed
       /\ handleBatchAnalysisComplete(results)
  /\ ev' = [op |-> "handleBatchAnalysisComplete"]
  /\ UNCHANGED <<notification, storeVars, storeRest>>

StoreNext ==
  \/ UpdateSettings \/ AddAlert \/ DeleteAlert \/ AddSource \/ DeleteSource
  \/ UploadDoc \/ DeleteDoc \/ ClearData \/ Reload

SpecStore == Init /\ [][StoreNext]_vars

\* ------------------------------------------------------------ EcommerceView
ecommerceRest ==
  <<svc, runs, appVars, storeVars, dbVars, inputVars, call, scanVars, auth, cleared>>
\* fetchData resumes after await getEcommerceInsights(): setData(result);
\* setLoading(false).  A rejection would leave fetchData at its await; the
\* setters of a view that has unmounted do nothing
InsightsSettle ==
  /\ io.insights.pc = "pending"
  /\ \E resp \in EcommerceResponses :
       LET result == getEcommerceInsights(resp)
       IN  /\ ui' = IF io.insights.mounted /\ result.settled = "resolved"
                    THEN [ui EXCEPT !.data = result.value, !.loading = FALSE]
                    ELSE ui
           /\ ev' = [op |-> "insightsSettle", kind |-> resp.kind,
                     mounted |-> io.insights.mounted]
  /\ io' = [io EXCEPT !.insights = IdleProc]
  /\ UNCHANGED ecommerceRest
\* the request of an earlier visit settles: its component is gone
StaleInsightsSettle ==
  /\ io.staleInsights > 0
  /\ \E resp \in EcommerceResponses :
       ev' = [op |-> "insightsSettle", kind |-> resp.kind, mounted |-> FALSE]
  /\ io' = [io EXCEPT !.staleInsights = @ - 1]
  /\ UNCHANGED <<ui, ecommerceRest>>
EcommerceViews == {"dashboard", "ecommerce", "history"}
NavigateEcommerce == \E view \in EcommerceViews : NavigateTo(view)

EcommerceNext ==
  \/ NavigateEcommerce \/ InsightsSettle \/ StaleInsightsSettle \/ Reload

SpecEcommerce == Init /\ [][EcommerceNext]_vars

\* ------------------------------------------------------------- admin gates
\* AlertsView, SettingsView and UsageGuideView hold the same four handlers
ADMIN_PASSWORD == "admin009"
ACCESS_DENIED  == "Access Denied: Invalid Security Credentials"
Passwords == {"", "admin", ADMIN_PASSWORD}
authRest == <<svc, runs, appVars, storeVars, dbVars, inputVars, call, scanVars, ui, io, cleared>>

\* handleAdminToggle: an admin locks at once, anyone else gets the auth screen
HandleAdminToggle(view) ==
  /\ currentView = view
  /\ auth' = [auth EXCEPT ![view] =
                IF @.isAdmin THEN [@ EXCEPT !.isAdmin = FALSE]
                ELSE [@ EXCEPT !.showAuthScreen = TRUE, !.password = "", !.authError = ""]]
  /\ ev' = [op |-> "handleAdminToggle", view |-> view]
  /\ UNCHANGED authRest
\* onChange of the password input of the auth screen
SetPassword(view, p) ==
  /\ currentView = view /\ auth[view].showAuthScreen
  /\ auth' = [auth EXCEPT ![view].password = p]
  /\ ev' = [op |-> "setPassword", view |-> view]
  /\ UNCHANGED authRest
\* handleLogin accepting every password that the admin password starts with
HandleLogin_Prefix(view) ==
  /\ currentView = view /\ auth[view].showAuthScreen
  /\ auth' = [auth EXCEPT ![view] =
                IF @.password \in {"admin", ADMIN_PASSWORD}
                THEN [@ EXCEPT !.isAdmin = TRUE, !.showAuthScreen = FALSE, !.authError = ""]
                ELSE [@ EXCEPT !.authError = ACCESS_DENIED, !.password = ""]]
  /\ ev' = [op |-> "handleLogin", view |-> view, password |-> auth[view].password]
  /\ UNCHANGED authRest
\* handleLogin: the submit handler of the auth screen
HandleLogin(view) ==
  /\ currentView = view /\ auth[view].showAuthScreen
  /\ auth' = [auth EXCEPT ![view] =
                IF @.password = ADMIN_PASSWORD
                THEN [@ EXCEPT !.isAdmin = TRUE, !.showAuthScreen = FALSE, !.authError = ""]
                ELSE [@ EXCEPT !.authError = ACCESS_DENIED, !.password = ""]]
  /\ ev' = [op |-> "handleLogin", view |-> view, password |-> auth[view].password]
  /\ UNCHANGED authRest
\* handleCancelAuth
HandleCancelAuth(view) ==
  /\ currentView = view /\ auth[view].showAuthScreen
  /\ auth' = [auth EXCEPT ![view] =
                [@ EXCEPT !.showAuthScreen = FALSE, !.password = "", !.authError = ""]]
  /\ ev' = [op |-> "handleCancelAuth", view |-> view]
  /\ UNCHANGED authRest

\* SettingsView: the controls of the email and analysis sections
settingsRest ==
  <<svc, runs, appVars, alerts, dataSources, docs, dbVars, inputVars, call, scanVars, auth, ui, io, cleared>>
\* the Email Alerts switch: isAdmin && onUpdateSettings({...settings, emailEnabled: !...})
ToggleEmailEnabled ==
  /\ currentView = "settings" /\ auth["settings"].isAdmin
  /\ onUpdateSettings([settings EXCEPT !.emailEnabled = ~@])
  /\ ev' = [op |-> "toggleEmailEnabled"]
  /\ UNCHANGED settingsRest
\* the Alert Email Address input, disabled={!settings.emailEnabled || !isAdmin}
SetEmail ==
  /\ currentView = "settings" /\ auth["settings"].isAdmin /\ settings.emailEnabled
  /\ \E e \in Emails : e # settings.email /\ onUpdateSettings([settings EXCEPT !.email = e])
  /\ ev' = [op |-> "setEmail"]
  /\ UNCHANGED settingsRest
\* the Risk Detection Level cards
SetSensitivity ==
  /\ currentView = "settings"
  /\ \E o \in Sensitivities : onUpdateSettings([settings EXCEPT !.sensitivity = o])
  /\ ev' = [op |-> "setSensitivity"]
  /\ UNCHANGED settingsRest

AdminToggle == \E view \in GatedViews : HandleAdminToggle(view)
TypePassword == \E view \in GatedViews, p \in Passwords : SetPassword(view, p)
Login == \E view \in GatedViews : HandleLogin(view)
CancelAuth == \E view \in GatedViews : HandleCancelAuth(view)
NavigateAuth == \E view \in GatedViews \cup {"dashboard"} : NavigateTo(view)

AuthNext ==
  \/ AdminToggle \/ TypePassword \/ Login \/ CancelAuth \/ NavigateAuth
  \/ ToggleEmailEnabled \/ SetEmail \/ SetSensitivity

SpecAuth == Init /\ [][AuthNext]_vars

\* ------------------------------------------------ SettingsView: Clear History
clearRest ==
  <<svc, runs, currentView, status, settings, dataSources, docs, dbVars, inputVars, call,
    scanVars, auth, io>>
\* handleClearRequest: nothing to clear, or the confirmation modal opens
HandleClearRequest ==
  /\ currentView = "settings" /\ ~ui.showClearConfirm
  /\ IF Len(articles) = 0
     THEN /\ notification' = Notify("No data to clear.", "info")
          /\ ui' = ui
     ELSE /\ ui' = [ui EXCEPT !.showClearConfirm = TRUE]
          /\ notification' = notification
  /\ ev' = [op |-> "handleClearRequest"]
  /\ UNCHANGED <<articles, alerts, localStorage, cleared, clearRest>>
\* the Cancel button of the confirmation modal
CancelClear ==
  /\ currentView = "settings" /\ ui.showClearConfirm
  /\ ui' = [ui EXCEPT !.showClearConfirm = FALSE]
  /\ ev' = [op |-> "cancelClear"]
  /\ UNCHANGED <<articles, notification, alerts, localStorage, cleared, clearRest>>
\* confirmClear: onClearData() (App.handleClearData), then notify(...), whose
\* notification replaces the one handleClearData set in the same event
ConfirmClear ==
  /\ currentView = "settings" /\ ui.showClearConfirm
  /\ clearData
  /\ notification' = Notify("All analysis history has been permanently deleted.", "success")
  /\ ui' = [ui EXCEPT !.showClearConfirm = FALSE]
  /\ cleared' = cleared \cup {articles[i].article_id : i \in 1..Len(articles)}
  /\ ev' = [op |-> "confirmClear"]
  /\ UNCHANGED clearRest

ClearViews == {"dashboard", "settings"}
NavigateClear == \E view \in ClearViews : NavigateTo(view)

\* the analysis form, the table and the Clear History of the settings view
ClearNext ==
  \/ SetText \/ SetSource \/ SetDate
  \/ HandleSubmit \/ AnalysisResponds \/ AlertSummaryResponds \/ SubmitResumes
  \/ HandleFinalize
  \/ InsertDone \/ FetchSettles \/ Reload \/ NavigateClear
  \/ HandleClearRequest \/ CancelClear \/ ConfirmClear

SpecClear == Init /\ [][ClearNext]_vars

\* the persisted state and the feed, filled by App's handlers, and the Clear
\* History of the settings view
WipeNext ==
  \/ UpdateSettings \/ AddAlert \/ AddSource \/ UploadDoc \/ BatchAnalysisComplete
  \/ ClearData
  \/ NavigateClear \/ HandleClearRequest \/ CancelClear \/ ConfirmClear

SpecWipe == Init /\ [][WipeNext]_vars

\* --------------------------------------- SettingsView: export and import
\* reading a property of a parsed object: undefined when the object lacks it
Prop(o, k) == IF k \in DOMAIN o THEN o[k] ELSE Undefined
\* the optional properties of ArticleAnalysis, the ones that can be undefined
OptionalKeys == {"url", "alert_summary", "ip_address", "original_post_content"}
\* a stringify that drops the empty strings as well
StringifyObject_DropsEmpty(o) ==
  [k \in {x \in DOMAIN o : ~(x \in OptionalKeys /\ o[x] \in {Undefined, ""})} |-> o[k]]
\* JSON.stringify of an object drops the properties whose value is undefined
StringifyObject(o) ==
  [k \in {x \in DOMAIN o : ~(x \in OptionalKeys /\ o[x] = Undefined)} |-> o[k]]
\* JSON.stringify(articles, null, 2)
StringifyArticles(v) ==
  [json |-> "array", items |-> [i \in 1..Len(v) |-> StringifyObject(v[i])]]
\* the downloaded file; list is the feed it was written from
ExportFile(v) == [text |-> StringifyArticles(v), list |-> v]
\* onImportData of App: replace the feed, or put the data in front of it
onImportData(data, mode) ==
  articles' = IF mode = "replace" THEN data ELSE data \o articles
transferRest ==
  <<svc, currentView, status, storeVars, dbVars, inputVars, call, scanVars, auth, ui,
    cleared>>
\* handleExport: nothing to export, or the feed is written to a download
HandleExport ==
  /\ currentView = "settings" /\ ~auth["settings"].showAuthScreen /\ ~ui.showClearConfirm
  /\ IF Len(articles) = 0
     THEN /\ notification' = Notify("No data available to export.", "error")
          /\ io' = io
     ELSE /\ io' = [io EXCEPT !.download = ExportFile(articles)]
          /\ notification' = Notify("Export started successfully.", "info")
  /\ ev' = [op |-> "handleExport"]
  /\ UNCHANGED <<runs, articles, transferRest>>
\* files of other origin the user can pick: not JSON, JSON but no array, an
\* array whose first element has no article_id or an empty one, an empty array
ForeignFiles ==
  { [json |-> "invalid"],
    [json |-> "object", article_id |-> "uuid-1"],
    [json |-> "array", items |-> << [title |-> "a post"] >>],
    [json |-> "array", items |-> << [article_id |-> "", source |-> "Facebook"] >>],
    [json |-> "array", items |-> <<>>] }
ImportFiles == ForeignFiles \cup (IF io.download = NoFile THEN {} ELSE {io.download.text})
\* SettingsView.handleFileChange: a FileReader starts on the file picked
SettingsHandleFileChange ==
  /\ currentView = "settings" /\ ~auth["settings"].showAuthScreen /\ ~ui.showClearConfirm
  /\ io.importRead.pc = "idle" /\ runs.imports < MaxImports
  /\ runs' = [runs EXCEPT !.imports = @ + 1]
  /\ \E text \in ImportFiles :
       io' = [io EXCEPT !.importRead = [pc |-> "reading", text |-> text, mounted |-> TRUE]]
  /\ ev' = [op |-> "handleFileChange"]
  /\ UNCHANGED <<articles, notification, transferRest>>
\* the format test that lets every array through
MatchesFormat_AcceptsAny(parsedData) == TRUE
\* the test of the first element: parsedData.length > 0 && !parsedData[0].article_id
MatchesFormat(parsedData) ==
  ~(Len(parsedData) > 0 /\ Prop(parsedData[1], "article_id") \in {Undefined, ""})
\* reader.onload of handleFileChange, or the read fails and no handler acts
ImportOutcome(text) ==
  IF text.json = "invalid" THEN "parseError"
  ELSE IF text.json # "array" THEN "notArray"
  ELSE IF ~MatchesFormat(text.items) THEN "mismatch"
  ELSE "imported"
ImportReadSettles ==
  /\ io.importRead.pc = "reading"
  /\ \E read \in {"load", "error"} :
       LET text == io.importRead.text
           outcome == IF read = "error" THEN "unread" ELSE ImportOutcome(text)
       IN  /\ IF outcome = "imported"
              THEN /\ onImportData(text.items, "merge")
                   /\ notification' = Notify("Successfully imported "
                                               \o ToString(Len(text.items)) \o " articles.",
                                             "success")
              ELSE /\ articles' = articles
                   /\ notification' =
                        IF outcome = "mismatch"
                        THEN Notify("File content does not match expected format.", "error")
                        ELSE IF outcome = "notArray"
                        THEN Notify("Invalid file format. Expected an array of articles.",
                                    "error")
                        ELSE IF outcome = "parseError"
                        THEN Notify("Failed to parse JSON file.", "error")
                        ELSE notification
           /\ ev' = [op |-> "importRead", outcome |-> outcome]
  /\ io' = [io EXCEPT !.importRead = IdleProc]
  /\ UNCHANGED <<runs, transferRest>>

\* the feed, its Clear History, and export and import of the settings view
TransferNext ==
  \/ SetText \/ SetSource
  \/ HandleSubmit \/ AnalysisResponds \/ AlertSummaryResponds \/ SubmitResumes
  \/ HandleFinalize
  \/ FetchSettles \/ NavigateClear
  \/ HandleClearRequest \/ ConfirmClear
  \/ HandleExport \/ SettingsHandleFileChange \/ ImportReadSettles

SpecTransfer == Init /\ [][TransferNext]_vars

\* ------------------------------------------------------------ UsageGuideView
\* files the admin can pick in the file dialog
PickedFiles ==
  {[type |-> "application/pdf", name |-> "manual.pdf", size |-> "0.40 MB",
    url |-> "data:application/pdf;base64,JVBERi0"],
   [type |-> "image/png", name |-> "logo.png", size |-> "0.01 MB",
    url |-> "data:image/png;base64,iVBOR"]}
\* the DocumentationFile handleFileChange builds in reader.onload
\* Date.now().toString() + Math.random().toString(36).substr(2, 9): an id no
\* document of the list has
NewDocId(list) ==
  LET id(n) == "1714550000" \o ToString(n) \o "k3j"
  IN  id(CHOOSE n \in 0..Len(list) : id(n) \notin Ids(list))
NewDoc(file, list) ==
  [id |-> NewDocId(list), name |-> file.name, size |-> file.size,
   uploadDate |-> Today, url |-> file.url]
usageRest ==
  <<svc, runs, currentView, articles, status, settings, alerts, dataSources, dbVars, inputVars,
    call, scanVars, auth, cleared>>

\* the file input rendered without the isAdmin condition
HandleFileChange_Ungated ==
  /\ currentView = "usage"
  /\ ~ui.isUploading /\ ui.deleteTarget = NoTarget /\ io.upload.pc = "idle"
  /\ Len(docs) < MaxDocs
  /\ \E file \in PickedFiles :
       IF file.type # "application/pdf"
       THEN UNCHANGED <<ui, io>>
       ELSE /\ ui' = [ui EXCEPT !.isUploading = TRUE]
            /\ io' = [io EXCEPT !.upload = [pc |-> "reading", file |-> file, mounted |-> TRUE]]
  /\ ev' = [op |-> "handleFileChange"]
  /\ UNCHANGED <<notification, docs, localStorage, usageRest>>
\* handleFileChange: the Upload PDF button and its file input exist only for
\* an admin; a file that is not a PDF is refused, a PDF starts the FileReader
HandleFileChange ==
  /\ currentView = "usage" /\ auth["usage"].isAdmin
  /\ ~ui.isUploading /\ ui.deleteTarget = NoTarget /\ io.upload.pc = "idle"
  /\ Len(docs) < MaxDocs
  /\ \E file \in PickedFiles :
       IF file.type # "application/pdf"
       THEN UNCHANGED <<ui, io>>
       ELSE /\ ui' = [ui EXCEPT !.isUploading = TRUE]
            /\ io' = [io EXCEPT !.upload = [pc |-> "reading", file |-> file, mounted |-> TRUE]]
  /\ ev' = [op |-> "handleFileChange"]
  /\ UNCHANGED <<notification, docs, localStorage, usageRest>>
\* reader.onload with or without a result, or reader.onerror
ReadOutcomes == {"load", "empty", "error"}
UploadReadSettles ==
  /\ io.upload.pc = "reading"
  /\ \E outcome \in ReadOutcomes :
       /\ IF outcome = "load"
          THEN handleUploadDoc(NewDoc(io.upload.file, docs))
          ELSE UNCHANGED <<notification, docs, localStorage>>
       /\ ev' = [op |-> "uploadRead", outcome |-> outcome, mounted |-> io.upload.mounted]
  /\ ui' = IF io.upload.mounted THEN [ui EXCEPT !.isUploading = FALSE] ELSE ui
  /\ io' = [io EXCEPT !.upload = IdleProc]
  /\ UNCHANGED usageRest
\* requestDelete: the Delete button of a row exists only for an admin
RequestDelete ==
  /\ currentView = "usage" /\ auth["usage"].isAdmin /\ ui.deleteTarget = NoTarget
  /\ \E id \in Ids(docs) \ ui.isDeleting : ui' = [ui EXCEPT !.deleteTarget = id]
  /\ ev' = [op |-> "requestDelete"]
  /\ UNCHANGED <<notification, docs, localStorage, io, usageRest>>
\* the Cancel button and the backdrop of the delete modal
CancelDelete ==
  /\ currentView = "usage" /\ ui.deleteTarget # NoTarget
  /\ ui.deleteTarget \notin ui.isDeleting
  /\ ui' = [ui EXCEPT !.deleteTarget = NoTarget]
  /\ ev' = [op |-> "cancelDelete"]
  /\ UNCHANGED <<notification, docs, localStorage, io, usageRest>>
\* confirmDelete up to its await api.deleteFile(id)
ConfirmDelete ==
  /\ currentView = "usage" /\ ui.deleteTarget # NoTarget
  /\ ui.deleteTarget \notin ui.isDeleting /\ io.deleteCall.pc = "idle"
  /\ ui' = [ui EXCEPT !.isDeleting = @ \cup {ui.deleteTarget}]
  /\ io' = [io EXCEPT !.deleteCall =
                        [pc |-> "deleting", id |-> ui.deleteTarget, mounted |-> TRUE]]
  /\ ev' = [op |-> "confirmDelete"]
  /\ UNCHANGED <<notification, docs, localStorage, usageRest>>
\* api.deleteFile resolves (it cannot reject): onDeleteDoc(id), then finally
DeleteSettles ==
  /\ io.deleteCall.pc = "deleting"
  /\ handleDeleteDoc(io.deleteCall.id)
  /\ ui' = IF io.deleteCall.mounted
           THEN [ui EXCEPT !.isDeleting = @ \ {io.deleteCall.id}, !.deleteTarget = NoTarget]
           ELSE ui
  /\ ev' = [op |-> "deleteDone", mounted |-> io.deleteCall.mounted]
  /\ io' = [io EXCEPT !.deleteCall = IdleProc]
  /\ UNCHANGED usageRest
\* the admin toggle of the view; the delete modal covers it while open
UsageAdminToggle == ui.deleteTarget = NoTarget /\ HandleAdminToggle("usage")
UsageTypePassword == \E p \in {"admin", ADMIN_PASSWORD} : SetPassword("usage", p)
UsageLogin == HandleLogin("usage")
UsageViews == {"dashboard", "usage"}
NavigateUsage == \E view \in UsageViews : NavigateTo(view)

UsageNext ==
  \/ UsageAdminToggle \/ UsageTypePassword \/ UsageLogin \/ NavigateUsage
  \/ HandleFileChange \/ UploadReadSettles
  \/ RequestDelete \/ CancelDelete \/ ConfirmDelete \/ DeleteSettles

SpecUsage == Init /\ [][UsageNext]_vars

\* ---------------------------------------------------------------- AlertsView
\* the view App renders (alerts, onDeleteAlert): the Active button and the
\* address input of every entry are rendered for everyone, and neither
\* handler looks at isAdmin
alertsRest ==
  <<svc, runs, appVars, storeVars, dbVars, inputVars, call, scanVars, auth, io, cleared>>
\* handleToggleEmail(id)
HandleToggleEmail ==
  /\ currentView = "alerts" /\ ~auth["alerts"].showAuthScreen
  /\ \E id \in Ids(ui.emailConfigs) :
       /\ ui' = [ui EXCEPT !.emailConfigs =
                   [i \in DOMAIN @ |->
                      IF @[i].id = id THEN [@[i] EXCEPT !.isActive = ~@] ELSE @[i]]]
       /\ ev' = [op |-> "handleToggleEmail", id |-> id]
  /\ UNCHANGED alertsRest
\* handleEmailChange(id, newEmail)
TypedAddresses == {"outsider@example.org"}
HandleEmailChange ==
  /\ currentView = "alerts" /\ ~auth["alerts"].showAuthScreen
  /\ \E id \in Ids(ui.emailConfigs), newEmail \in TypedAddresses :
       /\ ui' = [ui EXCEPT !.emailConfigs =
                   [i \in DOMAIN @ |->
                      IF @[i].id = id THEN [@[i] EXCEPT !.email = newEmail] ELSE @[i]]]
       /\ ui' # ui
       /\ ev' = [op |-> "handleEmailChange", id |-> id]
  /\ UNCHANGED alertsRest
AlertsAdminToggle == HandleAdminToggle("alerts")
AlertsTypePassword == \E p \in {"admin", ADMIN_PASSWORD} : SetPassword("alerts", p)
AlertsLogin == HandleLogin("alerts")
AlertsViews == {"dashboard", "alerts"}
NavigateAlerts == \E view \in AlertsViews : NavigateTo(view)

AlertsNext ==
  \/ AlertsAdminToggle \/ AlertsTypePassword \/ AlertsLogin \/ NavigateAlerts
  \/ HandleToggleEmail \/ HandleEmailChange

SpecAlerts == Init /\ [][AlertsNext]_vars

\* ------------------------------------------------- DataSourcesView.handleScan
\* batches a scrape response can carry to a scan
ScanPosts ==
  << Post("@calm_news: markets steady", "Facebook", "https://facebook.com/p/1", "203.0.113.7"),
     Post("@agitator: burn their books", "TikTok", "https://tiktok.com/@agitator/1", "198.51.100.9"),
     Post("@bystander: what a day", "Reddit", "https://reddit.com/r/city/1", "192.0.2.44") >>
ScanScrapeResponses ==
  FailResponses \cup
  {[kind |-> "json", val |-> SubSeq(ScanPosts, 1, k)] : k \in 0..Min(MaxPosts, Len(ScanPosts))}

\* isHighRisk || isNegativeSentiment
ShouldAlert_RiskOnly(analysis) == analysis.risk_category # "None"
ShouldAlert(analysis) ==
  \/ analysis.risk_category # "None" /\ analysis.risk_category # Undefined
  \/ analysis.sentiment_label \in {"Negative", "Very Negative"}

\* the AlertEntry handleScan hands to onAddAlert
ScanAlertEntry(n, recipient, emailContent, analysis) ==
  [id |-> "1714550000" \o ToString(n) \o "0.37", timestamp |-> "<now>",
   recipient |-> recipient, subject |-> emailContent.subject, body |-> emailContent.body,
   riskLevel |-> analysis.risk_category, source |-> analysis.source, status |-> "Sent"]

scanRest == <<svc, currentView, status, settings, dataSources, docs, dbVars, inputVars, auth, ui, io, cleared>>

\* handleScan up to its first await; the handler keeps the settings prop of
\* the render it was created in
HandleScan ==
  /\ currentView = "datasources" /\ ~isScanning
  /\ scan.pc = "idle" /\ call.pc = "idle" /\ runs.scans < MaxScans
  /\ runs' = [runs EXCEPT !.scans = @ + 1]
  /\ isScanning' = TRUE /\ lastScanData' = NoResult
  /\ notification' = Notify("Initiating social media & news scrape sequence...", "info")
  /\ scan' = [pc |-> "scrape", mounted |-> TRUE, settings |-> settings,
              rawPosts |-> <<>>, analyzedResults |-> <<>>, alertCount |-> 0,
              alertsBefore |-> Len(alerts), nScrape |-> 1, nAnalysis |-> <<>>,
              nEmail |-> <<>>, nAdded |-> <<>>, nReport |-> 0]
  /\ ev' = [op |-> "handleScan"]
  /\ UNCHANGED <<articles, alerts, localStorage, call, scanRest>>

\* the for loop reaches its next post, or the loop is over and the report is
\* requested (generateScanReport sends nothing for an empty list)
ScanContinue(s) ==
  LET done == Len(s.analyzedResults)
  IN  IF done < Len(s.rawPosts)
      THEN /\ scan' = [s EXCEPT !.pc = "analyze", !.nAnalysis[done + 1] = @ + 1]
           /\ call' = CallStart(s.rawPosts[done + 1])
      ELSE /\ scan' = [s EXCEPT !.pc = "report",
                                !.nReport = @ + IF ReportIssuesRequest(s.analyzedResults)
                                                THEN 1 ELSE 0]
           /\ call' = IdleProc

\* the scrape request is answered again after a failure
ScanScrapeSettles_Retries ==
  /\ scan.pc = "scrape"
  /\ \E resp \in ScanScrapeResponses :
       IF ~Parsable(resp) /\ scan.nScrape < 2
       THEN /\ scan' = [scan EXCEPT !.nScrape = @ + 1]
            /\ call' = call
       ELSE LET batch == generateSocialScrapeBatch(3, ScanPlatform, resp)
            IN  ScanContinue([scan EXCEPT !.rawPosts = batch.value,
                                          !.nAnalysis = [i \in 1..Len(batch.value) |-> 0],
                                          !.nEmail = [i \in 1..Len(batch.value) |-> 0],
                                          !.nAdded = [i \in 1..Len(batch.value) |-> 0]])
  /\ ev' = [op |-> "scrapeSettles"]
  /\ UNCHANGED <<runs, articles, notification, alerts, localStorage, isScanning, lastScanData,
                 scanRest>>

\* generateSocialScrapeBatch(3, ...) settles
ScanScrapeSettles ==
  /\ scan.pc = "scrape"
  /\ \E resp \in ScanScrapeResponses :
       LET batch == generateSocialScrapeBatch(3, ScanPlatform, resp)
       IN  IF batch.settled = "rejected"
           THEN /\ scan' = [scan EXCEPT !.pc = "failed"]
                /\ call' = call
           ELSE ScanContinue([scan EXCEPT !.rawPosts = batch.value,
                                          !.nAnalysis = [i \in 1..Len(batch.value) |-> 0],
                                          !.nEmail = [i \in 1..Len(batch.value) |-> 0],
                                          !.nAdded = [i \in 1..Len(batch.value) |-> 0]])
  /\ ev' = [op |-> "scrapeSettles"]
  /\ UNCHANGED <<runs, articles, notification, alerts, localStorage, isScanning, lastScanData,
                 scanRest>>

\* analyzeArticle(post) resolves: the result is pushed; a flagged result
\* counts as an alert and, with emailEnabled, asks for the alert email
ScanAnalysed ==
  /\ scan.pc = "analyze" /\ call.pc = "resolved"
  /\ LET analysis == call.data
         n == Len(scan.analyzedResults) + 1
         s == [scan EXCEPT !.analyzedResults = Append(@, analysis),
                           !.alertCount = @ + IF ShouldAlert(analysis) THEN 1 ELSE 0]
     IN  IF ShouldAlert(analysis) /\ scan.settings.emailEnabled
         THEN /\ scan' = [s EXCEPT !.pc = "email", !.nEmail[n] = @ + 1]
              /\ call' = IdleProc
         ELSE ScanContinue(s)
  /\ ev' = [op |-> "scanAnalysed"]
  /\ UNCHANGED <<runs, articles, notification, alerts, localStorage, isScanning, lastScanData,
                 scanRest>>

\* generateAlertEmail settles: onAddAlert logs the entry (a rejection would
\* be caught and logged), and the loop goes on
ScanEmailSettles ==
  /\ scan.pc = "email"
  /\ \E resp \in EmailResponses :
       LET n == Len(scan.analyzedResults)
           analysis == scan.analyzedResults[n]
           emailContent == generateAlertEmail(analysis, scan.settings.email, resp)
       IN  IF emailContent.settled = "resolved"
           THEN /\ handleAddAlert(ScanAlertEntry(Len(alerts), scan.settings.email,
                                                 emailContent.value, analysis))
                /\ ScanContinue([scan EXCEPT !.nAdded[n] = @ + 1])
           ELSE /\ UNCHANGED <<alerts, localStorage>>
                /\ ScanContinue(scan)
  /\ ev' = [op |-> "emailSettles"]
  /\ UNCHANGED <<runs, articles, notification, isScanning, lastScanData, scanRest>>

\* the catch of handleScan hands the results gathered so far to onArticlesFound
ScanFails_KeepsPartial ==
  /\ \/ scan.pc = "analyze" /\ call.pc = "rejected"
     \/ scan.pc = "failed"
  /\ notification' = Notify("Scraping sequence failed. Check API connection.", "error")
  /\ articles' = scan.analyzedResults \o articles
  /\ isScanning' = IF scan.mounted THEN FALSE ELSE isScanning
  /\ ev' = [op |-> "scanFailed", analysed |-> Len(scan.analyzedResults),
            logged |-> Len(alerts) - scan.alertsBefore]
  /\ scan' = IdleProc /\ call' = IdleProc
  /\ UNCHANGED <<runs, alerts, localStorage, lastScanData, scanRest>>

\* a rejection inside the try reaches the catch: the error notification, then
\* finally setIsScanning(false)
ScanFails ==
  /\ \/ scan.pc = "analyze" /\ call.pc = "rejected"
     \/ scan.pc = "failed"
  /\ notification' = Notify("Scraping sequence failed. Check API connection.", "error")
  /\ isScanning' = IF scan.mounted THEN FALSE ELSE isScanning
  /\ ev' = [op |-> "scanFailed", analysed |-> Len(scan.analyzedResults),
            logged |-> Len(alerts) - scan.alertsBefore]
  /\ scan' = IdleProc /\ call' = IdleProc
  /\ UNCHANGED <<runs, articles, alerts, localStorage, lastScanData, scanRest>>

\* generateScanReport settles: setLastScanData, onArticlesFound
\* (App.handleBatchAnalysisComplete), the closing notification, then finally
ScanReportSettles ==
  /\ scan.pc = "report"
  /\ \E resp \in ReportResponses :
       LET report == generateScanReport(scan.analyzedResults, resp)
       IN  lastScanData' = IF scan.mounted
                           THEN [articles |-> scan.analyzedResults, summary |-> report.value]
                           ELSE lastScanData
  /\ articles' = scan.analyzedResults \o articles
  /\ notification' =
       IF scan.alertCount > 0
       THEN Notify("SCAN COMPLETE: " \o ToString(scan.alertCount) \o " Alerts Sent", "error")
       ELSE Notify("Scan complete. " \o ToString(Len(scan.analyzedResults))
                     \o " items processed.", "success")
  /\ isScanning' = IF scan.mounted THEN FALSE ELSE isScanning
  /\ ev' = [op |-> "scanCompleted", analysed |-> Len(scan.analyzedResults),
            logged |-> Len(alerts) - scan.alertsBefore]
  /\ scan' = IdleProc /\ call' = IdleProc
  /\ UNCHANGED <<runs, alerts, localStorage, scanRest>>

\* a scan with the settings view open beside it
ScanViews == {"datasources", "settings"}
NavigateScan == \E view \in ScanViews : NavigateTo(view)
AdminToggleSettings == HandleAdminToggle("settings")
TypeAdminPassword == SetPassword("settings", ADMIN_PASSWORD)
LoginSettings == HandleLogin("settings")

ScanNext ==
  \/ HandleScan \/ ScanScrapeSettles \/ AnalysisResponds \/ AlertSummaryResponds
  \/ ScanAnalysed \/ ScanEmailSettles \/ ScanFails \/ ScanReportSettles
  \/ NavigateScan \/ AdminToggleSettings \/ TypeAdminPassword \/ LoginSettings
  \/ ToggleEmailEnabled

\* the steps by which a scan in flight goes on: its requests settle
ScanStep ==
  \/ ScanScrapeSettles \/ AnalysisResponds \/ AlertSummaryResponds
  \/ ScanAnalysed \/ ScanEmailSettles \/ ScanFails \/ ScanReportSettles

SpecScan == Init /\ [][ScanNext]_vars

\* sensitivityOptions of SettingsView: the labels each option's description
\* says it triggers alerts for
sensitivityOptions ==
  [low    |-> {"Very Negative"},
   medium |-> {"Negative", "Very Negative"},
   high   |-> {"Neutral", "Negative", "Very Negative"}]

\* a scan with the Risk Detection Level chosen in the settings view
SensitivityNext ==
  \/ HandleScan \/ ScanScrapeSettles \/ AnalysisResponds \/ AlertSummaryResponds
  \/ ScanAnalysed \/ ScanEmailSettles \/ ScanFails \/ ScanReportSettles
  \/ NavigateScan \/ SetSensitivity

SpecSensitivity == Init /\ [][SensitivityNext]_vars

\* ------------------------------------------ SettingsView: application logo
logoRest ==
  <<svc, runs, currentView, articles, status, alerts, dataSources, docs, dbVars, inputVars,
    call, scanVars, auth, ui, cleared>>
\* images the user can pick: size in bytes and the data URL the reader yields
MaxLogoSize == 2 * 1024 * 1024
PickedLogos ==
  {[size |-> 4096, result |-> "data:image/png;base64,iVBOR"],
   [size |-> MaxLogoSize + 1, result |-> "data:image/png;base64,AAAA"]}
\* handleLogoChange: a file over 2MB is refused; otherwise a FileReader starts
\* whose onload closes over the settings of the render that started it
HandleLogoChange ==
  /\ currentView = "settings" /\ ~auth["settings"].showAuthScreen /\ ~ui.showClearConfirm
  /\ io.logoRead.pc = "idle"
  /\ \E file \in PickedLogos :
       /\ IF file.size > MaxLogoSize
          THEN /\ notification' = Notify("Image size too large. Max 2MB.", "error")
               /\ io' = io
          ELSE /\ io' = [io EXCEPT !.logoRead = [pc |-> "reading", settings |-> settings,
                                                  result |-> file.result, mounted |-> TRUE]]
               /\ notification' = notification
       /\ ev' = [op |-> "handleLogoChange", size |-> file.size]
  /\ UNCHANGED <<settings, localStorage, logoRest>>
\* reader.onload (a result: onUpdateSettings({...settings, customLogo}) and
\* notify), or the read fails or yields nothing and no handler acts
LogoReadSettles ==
  /\ io.logoRead.pc = "reading"
  /\ \E outcome \in ReadOutcomes :
       /\ IF outcome = "load"
          THEN /\ onUpdateSettings([io.logoRead.settings EXCEPT
                                      !.customLogo = io.logoRead.result])
               /\ notification' = Notify("System logo updated successfully", "success")
          ELSE UNCHANGED <<settings, localStorage, notification>>
       /\ ev' = [op |-> "logoRead", outcome |-> outcome, before |-> settings]
  /\ io' = [io EXCEPT !.logoRead = IdleProc]
  /\ UNCHANGED logoRest
\* the Reset to Default button, shown while a custom logo is set
ResetLogo ==
  /\ currentView = "settings" /\ ~auth["settings"].showAuthScreen /\ ~ui.showClearConfirm
  /\ settings.customLogo # Undefined
  /\ onUpdateSettings([settings EXCEPT !.customLogo = Undefined])
  /\ ev' = [op |-> "resetLogo"]
  /\ UNCHANGED <<notification, io, logoRest>>
LogoViews == {"dashboard", "settings"}
NavigateLogo == \E view \in LogoViews : NavigateTo(view)

\* the settings view: its gate, its email and sensitivity controls, its logo
LogoNext ==
  \/ AdminToggleSettings \/ TypeAdminPassword \/ LoginSettings
  \/ ToggleEmailEnabled \/ SetEmail \/ SetSensitivity
  \/ HandleLogoChange \/ LogoReadSettles \/ ResetLogo \/ NavigateLogo

SpecLogo == Init /\ [][LogoNext]_vars

\* ------------------------------------------------------------------ claims
\* C1: generateSocialScrapeBatch(count, platform) never rejects; when the
\* request throws, has no text or has unparsable text it resolves to the first
\* count entries of the static fallback list (min(count, 3) posts for
\* count >= 0), and generateMockArticle, its caller, then resolves to the
\* first fallback post as for a successful scrape.
C1_ScrapeFallback ==
  /\ (svc.pc = "settled" /\ svc.fn = "generateSocialScrapeBatch") =>
       /\ svc.out.settled = "resolved"
       /\ (svc.resp \in FailResponses /\ svc.arg.count >= 0) =>
            /\ Len(svc.out.value) = Min(svc.arg.count, 3)
            /\ \A i \in 1..Len(svc.out.value) :
                 svc.out.value[i] = fallbackData(svc.arg.platform)[i]
  /\ (svc.pc = "settled" /\ svc.fn = "generateMockArticle") =>
       /\ svc.out.settled = "resolved"
       /\ svc.resp \in FailResponses =>
            svc.out.value = fallbackData(svc.arg.platform)[1]
C1_Witness ==
  /\ svc.pc = "settled" /\ svc.fn = "generateSocialScrapeBatch"
  /\ svc.resp.kind = "garbage" /\ svc.arg.count = 2
  /\ svc.out.settled = "resolved" /\ Len(svc.out.value) = 2

\* C2: generateAlertEmail, generateScanReport and getEcommerceInsights always
\* resolve; when their request throws or answers with empty text they resolve
\* to the fallback subject/body built from the article's risk_category and
\* source, to the fixed report text, and to the fallback snapshot.
C2_ServiceFallbacks ==
  (svc.pc = "settled" /\ svc.fn \in {"generateAlertEmail", "generateScanReport",
                                     "getEcommerceInsights"}) =>
    /\ svc.out.settled = "resolved"
    /\ svc.resp.kind \in {"throw", "empty"} =>
         /\ svc.fn = "generateAlertEmail" =>
              /\ svc.out.value.subject = "Automated Alert: " \o svc.arg.article.risk_category
              /\ svc.out.value.body =
                   "High risk detected in " \o svc.arg.article.source \o ". Please review dashboard."
         /\ svc.fn = "generateScanReport" =>
              svc.out.value = "Scan complete. Review detailed results below."
         /\ svc.fn = "getEcommerceInsights" => svc.out.value = FallbackEcommerce
C2_Witness ==
  /\ svc.pc = "settled" /\ svc.fn = "generateAlertEmail"
  /\ svc.resp.kind = "empty"
  /\ svc.arg.article.risk_category = "Hate Speech"
  /\ svc.out = Resolved([subject |-> "Automated Alert: Hate Speech",
                         body |-> "High risk detected in Facebook. Please review dashboard."])

Range(q) == {q[i] : i \in 1..Len(q)}

\* C3: when the analysis request of analyzeArticle throws, has no text or has
\* unparsable text, analyzeArticle rejects without starting an insert and
\* without asking for an alert summary; handleSubmit then sets the status to
\* ERROR and leaves the feed, the result modal and the form fields unchanged.
C3_PrimaryFailure ==
  [][ /\ (ev'.op = "analysisSettles" /\ ev'.kind # "json") =>
           /\ call'.pc = "rejected"
           /\ call'.nInsert = 0 /\ call'.nAlert = 0
           /\ inserts' = inserts /\ table' = table
      /\ (ev'.op \in {"submitResolved", "submitRejected"} /\ call.pc = "rejected") =>
           /\ status' = "ERROR"
           /\ articles' = articles
           /\ resultData' = resultData /\ showResultModal' = showResultModal
           /\ form' = form
    ]_vars
C3_Witness ==
  /\ ev.op = "submitRejected" /\ status = "ERROR"
  /\ form.text = "manual post text" /\ form.source = "Facebook" /\ form.date = Today
  /\ inserts = {} /\ table = <<>> /\ articles = <<>> /\ ~showResultModal

\* C6: the insert started by analyzeArticle is fire-and-forget: the call moves
\* on with the insert still in flight, the completion of an insert (stored,
\* error or exception) changes neither the call nor the status, the modal or
\* the feed, and only a failed analysis request makes a call reject and the
\* status ERROR.
C6_InsertFireAndForget ==
  [][ /\ (ev'.op = "analysisSettles" /\ ev'.kind = "json") =>
           /\ call'.pc \in {"alert", "resolved"}
           /\ InsertRow(call'.data) \in inserts'
      /\ ev'.op = "insertCompletes" =>
           UNCHANGED <<call, submit, status, articles, resultData, showResultModal>>
      /\ (call'.pc = "rejected" /\ call.pc # "rejected") =>
           (ev'.op = "analysisSettles" /\ ev'.kind # "json")
      /\ (status' = "ERROR" /\ status # "ERROR") => call.pc = "rejected"
      /\ (ev'.op \in {"submitResolved", "submitRejected"} /\ call.pc = "resolved") =>
           status' = "SUCCESS"
    ]_vars
C6_Witness ==
  /\ ev.op = "insertCompletes" /\ ev.outcome = "error"
  /\ status = "SUCCESS" /\ showResultModal /\ resultData # NoResult
  /\ table = <<>>

\* C7: an analysis of the feed whose row was stored is rebuilt by fetchHistory
\* from that row equal in every field of ArticleAnalysis.
C7_PersistedVerbatim ==
  \A i \in 1..Len(articles) :
    InsertRow(articles[i]) \in Range(table) => MapRow(InsertRow(articles[i])) = articles[i]
C4_ScanStopsOnFailure ==
  [][/\ (scan.pc = "analyze" /\ call.pc = "rejected" /\ scan'.pc # scan.pc)
          => ev'.op = "scanFailed"
     /\ articles' # articles => ev'.op = "scanCompleted"
     /\ ev'.op = "scanFailed"
          => /\ articles' = articles
             /\ lastScanData = NoResult /\ lastScanData' = NoResult
             /\ notification' = Notify("Scraping sequence failed. Check API connection.",
                                       "error")
             /\ isScanning' = FALSE
             /\ alerts' = alerts /\ localStorage' = localStorage
             /\ Len(alerts) = scan.alertsBefore + ev'.logged
             /\ scan'.pc = "idle" /\ call'.pc = "idle"]_vars

\* C4 witness: a scan has failed at a later post after an earlier post was
\* analysed and its alert logged; the feed is empty and the alert is in the log
C4_Witness ==
  /\ ev.op = "scanFailed" /\ ev.analysed >= 1 /\ ev.logged >= 1
  /\ articles = <<>> /\ Len(alerts) >= 1
  /\ ~isScanning /\ lastScanData = NoResult

\* C5: no request is retried.  Within one analyzeArticle call the analysis
\* request, the insert and the alert-summary request are each issued at most
\* once; within one handleScan run there is exactly one scrape request, at
\* most one analysis request per post, at most one alert-email request per
\* post and only for a flagged one, and at most one report request.
C5_NoRetry ==
  /\ call.pc # "idle"
       => /\ call.nAnalysis = 1 /\ call.nInsert <= 1 /\ call.nAlert <= 1
          /\ call.pc = "rejected" => call.nInsert = 0 /\ call.nAlert = 0
  /\ scan.pc # "idle"
       => /\ scan.nScrape = 1 /\ scan.nReport <= 1
          /\ \A i \in 1..Len(scan.rawPosts) :
               /\ scan.nAnalysis[i] <= 1 /\ scan.nEmail[i] <= 1
               /\ scan.nEmail[i] = 1
                    => /\ i <= Len(scan.analyzedResults)
                       /\ \/ scan.analyzedResults[i].risk_category # "None"
                          \/ scan.analyzedResults[i].sentiment_label
                               \in {"Negative", "Very Negative"}

\* C5 witness: the scrape request of a scan failed, the scan went on with the
\* three fallback posts, and every request of the run has been issued once
C5_Witness ==
  /\ scan.pc = "report" /\ scan.nReport = 1 /\ scan.nScrape = 1
  /\ scan.rawPosts = fallbackData(ScanPlatform)
  /\ \A i \in 1..3 : scan.nAnalysis[i] = 1
  /\ \E i \in 1..3 : scan.nEmail[i] = 1

\* C10: for each post a scan has analysed, exactly one AlertEntry has been
\* added to the alert log if (risk_category is not 'None' or sentiment_label
\* is 'Negative' or 'Very Negative') and handleScan's settings.emailEnabled is
\* true, and none otherwise; the log has grown by exactly those entries, so
\* with emailEnabled false the scan adds none.
SumSeq(q) ==
  LET F[i \in 0..Len(q)] == IF i = 0 THEN 0 ELSE F[i - 1] + q[i]
  IN  F[Len(q)]
C11_ClearIsPermanent ==
  /\ ev.op = "confirmClear" => articles = <<>>
  /\ \A i \in 1..Len(articles) : articles[i].article_id \notin cleared


\* C12: the Risk Detection Level decides which scanned posts trigger an
\* alert.  Stated for the posts without a risk category, where the sentiment
\* label alone decides: with alerts enabled such a post gets its alert entry
\* exactly when its label is among those of the sensitivity the scan holds
\* ('low': Very Negative; 'medium': Negative, Very Negative; 'high': Neutral,
\* Negative, Very Negative).
C12_SensitivityControls ==
  (scan.pc \in {"analyze", "email", "report"} /\ scan.settings.emailEnabled)
    => LET done == IF scan.pc = "email" THEN Len(scan.analyzedResults) - 1
                   ELSE Len(scan.analyzedResults)
       IN  \A i \in 1..done :
             scan.analyzedResults[i].risk_category = "None"
               => (scan.nAdded[i] = 1
                     <=> scan.analyzedResults[i].sentiment_label
                           \in sensitivityOptions[scan.settings.sensitivity])


\* C13 as claimed: in UsageGuideView a document is added to or removed from
\* docs only in a state where isAdmin is true, whatever the admin toggle does
\* while the file read or the delete call is in flight (stated for a view
\* that is still mounted when the read or the call completes).
C13_AdminOnly ==
  [][(docs' # docs /\ ev'.mounted) => auth["usage"].isAdmin]_vars

\* C13 as amended: an upload and a delete are started only in a state where
\* isAdmin is true; docs changes only when a started file read or a confirmed
\* delete call completes; a delete completes with isAdmin still true while
\* its view is mounted.
C13_AdminStartsOnly ==
  [][/\ ev'.op \in {"handleFileChange", "requestDelete", "confirmDelete"}
          => auth["usage"].isAdmin
     /\ docs' # docs
          => \/ ev'.op = "uploadRead" /\ io.upload.pc = "reading"
             \/ ev'.op = "deleteDone" /\ io.deleteCall.pc = "deleting"
     /\ (ev'.op = "deleteDone" /\ ev'.mounted) => auth["usage"].isAdmin]_vars

\* C13 witness: a file read started by an admin has completed and added its
\* document after admin access was locked again, the view still mounted
C13_Witness ==
  /\ ev.op = "uploadRead" /\ ev.outcome = "load" /\ ev.mounted
  /\ currentView = "usage" /\ ~auth["usage"].isAdmin
  /\ Len(docs) = 1 /\ docs[1].name = "manual.pdf"


\* C14: in AlertsView the isActive flag and the address of an emailConfigs
\* entry change only in a state where isAdmin is true; no action taken in the
\* view while it shows 'Admin Access: LOCKED' changes them.
C14_DistributionListGated ==
  [][(currentView = "alerts" /\ currentView' = "alerts"
      /\ \E i \in DOMAIN ui.emailConfigs :
           \/ ui'.emailConfigs[i].isActive # ui.emailConfigs[i].isActive
           \/ ui'.emailConfigs[i].email # ui.emailConfigs[i].email)
       => auth["alerts"].isAdmin]_vars


\* C15: settings.emailEnabled and settings.email keep their values across
\* every action performed while isAdmin is false in the settings view,
\* including the completion of a logo read started before other changes.
C15_EmailNeedsAdmin ==
  [][~auth["settings"].isAdmin =>
       /\ settings'.emailEnabled = settings.emailEnabled
       /\ settings'.email = settings.email]_vars

\* C16: the number N of the notification 'SCAN COMPLETE: N Alerts Sent' that
\* ends a scan equals the number of entries this scan added to the alert log,
\* whatever the value of settings.emailEnabled.
C16_ReportedEqualsLogged ==
  ev.op = "scanCompleted"
    => \A n \in 0..MaxPosts :
         notification.message = "SCAN COMPLETE: " \o ToString(n) \o " Alerts Sent"
           => n = ev.logged

\* C17: navigation never cancels a scan in flight.  A navigation step leaves
\* the scan and its request as they are (only the view's own setters go
\* dead); a scan whose view has unmounted can always take its next step, logs
\* its alerts as a mounted one does, and changes the feed in one step only,
\* its completion, which puts all of its results in front of the feed.
C17_NavigationKeepsScan ==
  [][/\ (ev'.op = "navigate" /\ scan.pc # "idle")
          => /\ [scan' EXCEPT !.mounted = FALSE] = [scan EXCEPT !.mounted = FALSE]
             /\ currentView = "datasources" => ~scan'.mounted
             /\ call' = call /\ articles' = articles /\ alerts' = alerts
     /\ (scan.pc # "idle" /\ ~scan.mounted)
          => /\ ENABLED ScanStep
             /\ articles' # articles => ev'.op = "scanCompleted"
             /\ ev'.op = "scanCompleted"
                  => /\ articles' = scan.analyzedResults \o articles
                     /\ scan.settings.emailEnabled
                          => Len(alerts') = scan.alertsBefore + scan.alertCount
             /\ (scan.pc = "email" /\ scan'.pc # "email")
                  => Len(alerts') = Len(alerts) + 1]_vars

\* C17 witness: a scan completed while another view was shown: its results
\* are in the feed once, its alert is in the log, the scan view got nothing
C17_Witness ==
  /\ ev.op = "scanCompleted" /\ currentView # "datasources"
  /\ ev.analysed >= 2 /\ ev.logged >= 1
  /\ Len(articles) = ev.analysed /\ Len(alerts) = ev.logged
  /\ lastScanData = NoResult

\* C18: importing a file that handleExport produced into an empty feed yields
\* a feed equal to the exported list: as many articles, in the same order,
\* every property of ArticleAnalysis reading the same value.
ArticleKeys ==
  {"article_id", "source", "url", "date", "summary", "primary_topic", "sentiment_score",
   "sentiment_label", "risk_category", "key_entities", "references", "alert_summary",
   "ip_address", "original_post_content"}
SameArticles(a, b) ==
  /\ Len(a) = Len(b)
  /\ \A i \in 1..Len(a) : \A k \in ArticleKeys :
       /\ (k \in DOMAIN a[i]) = (k \in DOMAIN b[i]) \/ k \in OptionalKeys
       /\ (k \in DOMAIN a[i] /\ k \in DOMAIN b[i]) => a[i][k] = b[i][k]
       /\ (k \in DOMAIN a[i] /\ k \notin DOMAIN b[i]) => a[i][k] = Undefined
       /\ (k \notin DOMAIN a[i] /\ k \in DOMAIN b[i]) => b[i][k] = Undefined
C19_RejectedImport ==
  [][(/\ io.importRead.pc = "reading"
      /\ \/ io.importRead.text.json # "array"
         \/ /\ Len(io.importRead.text.items) > 0
            /\ "article_id" \notin DOMAIN io.importRead.text.items[1]
      /\ ev'.op = "importRead" /\ ev'.outcome # "unread")
       => /\ articles' = articles
          /\ notification'.type = "error"
          /\ notification'.message =
               IF io.importRead.text.json = "invalid" THEN "Failed to parse JSON file."
               ELSE IF io.importRead.text.json # "array"
               THEN "Invalid file format. Expected an array of articles."
               ELSE "File content does not match expected format."]_vars

\* C19 witness: with an article in the feed, an array whose first element has
\* no article_id was read and refused
C19_Witness ==
  /\ ev.op = "importRead" /\ ev.outcome = "mismatch"
  /\ Len(articles) = 1
  /\ notification = Notify("File content does not match expected format.", "error")

\* C20: handleClearData sets articles and alerts to the empty list, which
\* makes the artemis_alerts entry an empty list, and leaves settings,
\* dataSources and docs and their localStorage entries as they were.
C20_ClearFrame ==
  [][ev'.op \in {"handleClearData", "confirmClear"}
       => /\ articles' = <<>> /\ alerts' = <<>>
          /\ localStorage'.artemis_alerts = StringifyList(<<>>)
          /\ settings' = settings /\ dataSources' = dataSources /\ docs' = docs
          /\ localStorage'.artemis_settings = localStorage.artemis_settings
          /\ localStorage'.artemis_dataSources = localStorage.artemis_dataSources
          /\ localStorage'.artemis_docs = localStorage.artemis_docs]_vars

\* C20 witness: a confirmed clear has emptied a feed and an alert log; the
\* changed settings, the added source and the uploaded document are still
\* there, in memory and in localStorage
C20_Witness ==
  /\ ev.op = "confirmClear" /\ cleared # {}
  /\ articles = <<>> /\ alerts = <<>>
  /\ localStorage.artemis_alerts = StringifyList(<<>>)
  /\ settings.email = "soc@company.com" /\ settings.customLogo # Undefined
  /\ Len(dataSources) = Len(INITIAL_SOURCES) + 1 /\ Len(docs) = 1
  /\ localStorage.artemis_settings = StringifySettings(settings)
  /\ localStorage.artemis_dataSources = StringifyList(dataSources)
  /\ localStorage.artemis_docs = StringifyList(docs)

====
